---- MODULE Spec2Model ----
(***************************************************************************)
(* Model of pilot/copytool/rucio.py: the rucio copytool of the pilot.      *)
(*   copy_in                 download a batch of FileSpec records          *)
(*   copy_out                upload a batch of FileSpec records            *)
(*   resolve_transfer_error  classify the stderr of a failed transfer      *)
(* The external collaborators (execute, os.path.exists, json.load of the   *)
(* summary file, FileSpec.is_directaccess, verify_catalog_checksum) are    *)
(* the environment: each call of one is a choice over its outcomes.        *)
(***************************************************************************)
EXTENDS Integers, Sequences, FiniteSets, TLC

VARIABLES
    files,      \* the list of FileSpec records handed to copy_in / copy_out
    pc,         \* position of the call: idle, copy_in, copy_in_verify,
                \* copy_out, copy_out_verify, returned, raised
    idx,        \* index (1-based) of the record the for loop is at
    kwargs,     \* the options of the call
    summary,    \* the local variable `summary` of copy_out
    exc,        \* the PilotException raised, if any
    environ,    \* os.environ['RUCIO_LOGGING_FORMAT']
    executed,   \* history: the execute() calls made, in order
    probed,     \* history: the os.path.exists() calls made, in order
    disk,       \* history: what was at the record's path when its transfer was over
    asked,      \* history: the is_directaccess() calls made, in order
    entry,      \* history: the list `files` as it was on entry to the call
    rte,        \* argument and result of a stand-alone resolve_transfer_error call
    calls       \* the positions of two calls that run concurrently in one process

vars == <<files, pc, idx, kwargs, summary, exc, environ, executed, probed, disk, asked, entry, rte, calls>>

-----------------------------------------------------------------------------
(* Bounds of the model *)

MaxFiles == 2
MaxLines == 2
MaxTokens == 2

-----------------------------------------------------------------------------
(* Values *)

None == "None"

\* ErrorCodes of pilot.common.exception used by the copytool: distinct, nonzero.
STAGEINFAILED == 1099
STAGEOUTFAILED == 1137
RUCIOSERVICEUNAVAILABLE == 1333
PUTADMISMATCH == 1172
GETADMISMATCH == 1171

LOGGING_FORMAT == "%(asctime)s %(levelname)s [%(message)s]"

require_replicas == TRUE

Truthy(v) == v # None

\* `a or b or c` on optional strings
Or3(a, b, c) == IF Truthy(a) THEN a ELSE IF Truthy(b) THEN b ELSE c

-----------------------------------------------------------------------------
(* resolve_transfer_error: a text is the list of its lines (split on "\n"),  *)
(* a line the list of its whitespace-separated tokens.                      *)

Tokens == {"Details:", "service_unavailable", "x"}

Lines == UNION {[1..n -> Tokens] : n \in 0..MaxTokens}

Texts == UNION {[1..n -> Lines] : n \in 1..MaxLines}

RECURSIVE Flatten(_, _)
\* the raw text as one token list, "\n" between the lines
Flatten(output, k) ==
    IF k > Len(output) THEN <<>>
    ELSE output[k] \o (IF k < Len(output) THEN <<"\n">> ELSE <<>>) \o Flatten(output, k + 1)

BoolStr(b) == IF b THEN "True" ELSE "False"

\* re.search("Details\s*:\s*(?P<error>.*)", line): position of the leftmost match, 0 if none
DetailsMatch(line) ==
    IF \E p \in 1..Len(line) : line[p] = "Details:"
    THEN CHOOSE p \in 1..Len(line) : line[p] = "Details:" /\ \A q \in 1..(p - 1) : line[q] # "Details:"
    ELSE 0

\* variant of DetailsGroup: the whole match (group 0) instead of the named group
DetailsGroupWhole(line) == SubSeq(line, DetailsMatch(line), Len(line))

\* m.group('error'): the rest of the line after the match
DetailsGroup(line) == SubSeq(line, DetailsMatch(line) + 1, Len(line))

\* 'service_unavailable' in line
HasMarker(line) == \E p \in 1..Len(line) : line[p] = "service_unavailable"

\* the body of the for loop over the lines
ScanLine(line, ret) ==
    IF DetailsMatch(line) # 0
    THEN [ret EXCEPT !.error = DetailsGroup(line)]
    ELSE IF HasMarker(line)
         THEN [ret EXCEPT !.error = <<"service_unavailable">>, !.rcode = RUCIOSERVICEUNAVAILABLE]
         ELSE ret

RECURSIVE ScanLines(_, _, _)
ScanLines(output, k, ret) ==
    IF k > Len(output) THEN ret
    ELSE ScanLines(output, k + 1, ScanLine(output[k], ret))

\* variant of DefaultError: the codes of the two directions are swapped
DefaultErrorSwapped(output, is_stagein) ==
    [rcode |-> IF is_stagein THEN STAGEOUTFAILED ELSE STAGEINFAILED,
     state |-> "COPY_ERROR",
     error |-> <<"Copy operation failed [is_stagein=", BoolStr(is_stagein), "]:">> \o Flatten(output, 1)]

\* line 176-177: the result when no line matches
DefaultError(output, is_stagein) ==
    [rcode |-> IF is_stagein THEN STAGEINFAILED ELSE STAGEOUTFAILED,
     state |-> "COPY_ERROR",
     error |-> <<"Copy operation failed [is_stagein=", BoolStr(is_stagein), "]:">> \o Flatten(output, 1)]

resolve_transfer_error(output, is_stagein) ==
    ScanLines(output, 1, DefaultError(output, is_stagein))

-----------------------------------------------------------------------------
(* FileSpec records and the options of a call *)

LfnNames == <<"f1", "f2", "f3", "f4">>

\* a FileSpec as the caller hands it over: identity and location fields set,
\* status fields at the defaults of FileSpec
FileSpec(i, adler32, turl) ==
    [scope |-> "s", lfn |-> LfnNames[i], guid |-> None, ddmendpoint |-> "RSE_OUT",
     surl |-> "/src/" \o LfnNames[i], replicas |-> <<"RSE_A", "RSE_B">>,
     workdir |-> "/wd/" \o LfnNames[i],
     checksum |-> [adler32 |-> adler32], turl |-> turl, status |-> None, status_code |-> 0]

Digests == {"a", "b"}

\* the batches: up to MaxFiles records of distinct lfn, each with or without an
\* expected adler32 digest and with or without a fixed transfer URL
FileLists ==
    UNION {{[i \in 1..n |-> FileSpec(i, c[i], t[i])] :
              c \in [1..n -> {None, "a"}], t \in [1..n -> {None, "t0"}]} : n \in 0..MaxFiles}

\* kwargs.summary keeps the `summary` option as it was passed
NoCall == [func |-> None, allow_direct_access |-> FALSE, ignore_errors |-> FALSE,
           no_register |-> FALSE, summary |-> TRUE, workdir |-> None]

NoExc == [error |-> <<>>, code |-> 0, state |-> None]

PilotException(error, code, state) == [error |-> error, code |-> code, state |-> state]

\* "%s:%s" % (fspec.scope, fspec.lfn)
Did(f) == f.scope \o ":" \o f.lfn

\* the stderr texts the external client is taken to print on a failure
StderrTexts == { << <<"Details:", "x">> >>, << <<"x">>, <<"service_unavailable">> >> }

NoText == << <<>> >>

-----------------------------------------------------------------------------
(* The summary JSON of `rucio upload --summary`: an object mapping         *)
(* "scope:lfn" to an object that may hold "pfn" and "adler32".             *)

EmptyObj == [k \in {} |-> None]

\* the entries of a summary: a pfn with or without a digest, or neither
SummaryEntries == {e \in [pfn : {None, "p1"}, adler32 : {None} \cup Digests] :
                     e.pfn = None => e.adler32 = None}

\* the objects a summary file may hold when the record f is looked up in it
SummaryObjects(f) ==
    {EmptyObj} \cup {[k \in {Did(f)} |-> e] : e \in SummaryEntries}
               \cup {[k \in {"s:other"} |-> [pfn |-> "p9", adler32 |-> "a"]]}

\* the local variable `summary`: the option (a boolean) until line 149 rebinds
\* it to the parsed JSON object
SummaryOption(b) == [isbool |-> TRUE, val |-> b, obj |-> EmptyObj]

SummaryJson(o) == [isbool |-> FALSE, val |-> FALSE, obj |-> o]

\* `if summary:`
SummaryTruthy(s) == IF s.isbool THEN s.val ELSE DOMAIN s.obj # {}

\* summary.get("%s:%s" % (fspec.scope, fspec.lfn)) or {}
SummaryGet(o, f) == IF Did(f) \in DOMAIN o THEN o[Did(f)] ELSE [pfn |-> None, adler32 |-> None]


-----------------------------------------------------------------------------
(* Steps shared by the two loops *)

\* the record the loop is at
Cur == files[idx]

\* variant of SetCur: the status written to the record is written to the
\* records after it as well
SetCurAndRest(f) ==
    [i \in 1..Len(files) |->
        IF i = idx THEN f
        ELSE IF i > idx THEN [files[i] EXCEPT !.status = f.status, !.status_code = f.status_code]
        ELSE files[i]]

\* an assignment to a field of fspec: the record is changed in place in the list
SetCur(f) == [files EXCEPT ![idx] = f]

\* variant of NextRecord: the loop stays at the record
NextRecordAgain(loop) == idx' = idx /\ pc' = loop

\* `for fspec in files`: go to the next record, or return files
NextRecord(loop) ==
    IF idx < Len(files)
    THEN idx' = idx + 1 /\ pc' = loop
    ELSE idx' = idx /\ pc' = "returned"

Raise(e) == pc' = "raised" /\ exc' = e /\ idx' = idx

-----------------------------------------------------------------------------
(* copy_in *)

\* variant of IsDirect: direct access is never taken
IsDirectNever(da, allow_direct_access) == FALSE

\* line 53: fspec.is_directaccess(ensure_replica=False) and allow_direct_access
IsDirect(da, allow_direct_access) == da /\ allow_direct_access

\* lines 54-55
MarkRemoteIO(f) == [f EXCEPT !.status_code = 0, !.status = "remote_io"]

\* line 60 and line 143: fspec.workdir or kwargs.get('workdir') or '.'
Workdir(f, kw) == Or3(f.workdir, kw.workdir, ".")

\* lines 61-64
DownloadCmd(f, dst) ==
    <<"/usr/bin/env", "rucio", "-v", "download", "--no-subdir", "--dir", dst>>
    \o (IF require_replicas /\ f.replicas # <<>> THEN <<"--rse", f.replicas[1]>> ELSE <<>>)
    \o <<Did(f)>>

\* variant of TransferFailed: the status tag is not set
TransferFailedNoTag(f, error) == [f EXCEPT !.status_code = error.rcode]

\* lines 71-73 and 136-138: the record after a nonzero exit code
TransferFailed(f, error) == [f EXCEPT !.status = "failed", !.status_code = error.rcode]

\* line 74: `if not ignore_errors` after a failed download
InAbortOnRcode(ignore_errors) == ~ignore_errors

\* variant of InAbortOnChecksum: a failed verification never aborts the batch
InAbortOnChecksumNever(f, ignore_errors) == FALSE

\* variant of InAbortOnChecksum: the status code is not looked at
InAbortOnChecksumAlways(f, ignore_errors) == ~ignore_errors

\* line 81: `if fspec.status_code and not ignore_errors` after the checksum verification
InAbortOnChecksum(f, ignore_errors) == f.status_code # 0 /\ ~ignore_errors

\* variant of InMarkTransferred: the final status is not set
InMarkTransferredNever(f) == f

\* lines 86-88
InMarkTransferred(f) ==
    IF f.status_code = 0 THEN [f EXCEPT !.status_code = 0, !.status = "transferred"] ELSE f

\* verify_catalog_checksum(fspec, destination) of pilot.copytool.common: it
\* compares the digest of the local file with fspec.checksum; on a mismatch it
\* sets the record's status code and tag and returns the state and diagnostics
verify_catalog_checksum(f, matches) ==
    IF matches
    THEN [fspec |-> f, state |-> "", diagnostics |-> <<>>]
    ELSE [fspec |-> [f EXCEPT !.status_code = GETADMISMATCH, !.status = "failed"],
          state |-> "AD_MISMATCH", diagnostics |-> <<"checksum verification failed">>]

\* variant of SetLoggingFormat: the variable is left as it is
SetLoggingFormatNot(env) == env

\* lines 49 and 103: os.environ['RUCIO_LOGGING_FORMAT'] = '...'
SetLoggingFormat(env) == LOGGING_FORMAT

\* lines 45-49: entry to copy_in
CopyIn ==
    /\ pc = "idle"
    /\ \E allow \in BOOLEAN, ign \in BOOLEAN :
         kwargs' = [NoCall EXCEPT !.func = "copy_in", !.allow_direct_access = allow,
                                  !.ignore_errors = ign]
    /\ environ' = SetLoggingFormat(environ)
    /\ entry' = files
    /\ idx' = IF Len(files) = 0 THEN 0 ELSE 1
    /\ pc' = IF Len(files) = 0 THEN "returned" ELSE "copy_in"
    /\ UNCHANGED <<files, summary, exc, executed, probed, disk, asked, rte, calls>>

\* lines 51-56: a record accessed directly
CopyInDirect ==
    /\ pc = "copy_in"
    /\ \E da \in BOOLEAN :
         /\ IsDirect(da, kwargs.allow_direct_access)
         /\ asked' = Append(asked, [i |-> idx, da |-> da])
    /\ files' = SetCur(MarkRemoteIO(Cur))
    /\ NextRecord("copy_in")
    /\ UNCHANGED <<kwargs, summary, exc, environ, executed, probed, disk, entry, rte, calls>>

\* lines 51-75: a record that is downloaded, up to the handling of the exit code
CopyInDownload ==
    /\ pc = "copy_in"
    /\ \E da \in BOOLEAN :
         /\ ~IsDirect(da, kwargs.allow_direct_access)
         /\ asked' = Append(asked, [i |-> idx, da |-> da])
    /\ \E rcode \in {0, 1} : \E stderr \in (IF rcode = 0 THEN {NoText} ELSE StderrTexts) :
         LET f0 == [Cur EXCEPT !.status_code = 0]
             cmd == DownloadCmd(f0, Workdir(f0, kwargs))
             error == resolve_transfer_error(stderr, TRUE)
         IN /\ executed' = Append(executed, [i |-> idx, cmd |-> cmd, rcode |-> rcode, stderr |-> stderr,
                                             env |-> environ])
            /\ IF rcode # 0
               THEN /\ files' = SetCur(TransferFailed(f0, error))
                    /\ IF InAbortOnRcode(kwargs.ignore_errors)
                       THEN Raise(PilotException(error.error, error.rcode, error.state))
                       ELSE pc' = "copy_in_verify" /\ UNCHANGED <<idx, exc>>
               ELSE /\ files' = SetCur(f0)
                    /\ pc' = "copy_in_verify"
                    /\ UNCHANGED <<idx, exc>>
    /\ UNCHANGED <<kwargs, summary, environ, probed, disk, entry, rte, calls>>

\* lines 77-88: the checksum verification and the final status of the record
CopyInVerify ==
    /\ pc = "copy_in_verify"
    /\ \E exists \in BOOLEAN : \E matches \in (IF exists THEN BOOLEAN ELSE {TRUE}) :
         LET dst == Workdir(Cur, kwargs)
             v == verify_catalog_checksum(Cur, matches)
             f1 == IF exists THEN v.fspec ELSE Cur
         IN /\ probed' = Append(probed, [i |-> idx, path |-> <<dst, Cur.lfn>>])
            /\ disk' = Append(disk, [i |-> idx, exists |-> exists, obj |-> EmptyObj, matches |-> matches])
            /\ IF exists /\ InAbortOnChecksum(f1, kwargs.ignore_errors)
               THEN /\ files' = SetCur(f1)
                    /\ Raise(PilotException(v.diagnostics, f1.status_code, v.state))
               ELSE /\ files' = SetCur(InMarkTransferred(f1))
                    /\ NextRecord("copy_in")
                    /\ UNCHANGED exc
    /\ UNCHANGED <<kwargs, summary, environ, executed, asked, entry, rte, calls>>


-----------------------------------------------------------------------------
(* copy_out *)

\* lines 110-127
UploadCmd(f, no_register, s) ==
    <<"/usr/bin/env", "rucio", "-v", "upload", "--rse", f.ddmendpoint>>
    \o (IF Truthy(f.scope) THEN <<"--scope", f.scope>> ELSE <<>>)
    \o (IF Truthy(f.guid) THEN <<"--guid", f.guid>> ELSE <<>>)
    \o (IF no_register THEN <<"--no-register">> ELSE <<>>)
    \o (IF SummaryTruthy(s) THEN <<"--summary">> ELSE <<>>)
    \o (IF Truthy(f.turl) THEN <<"--pfn", f.turl>> ELSE <<>>)
    \o <<f.surl>>

\* variant of OutAbortOnRcode: a failed upload never aborts the batch
OutAbortOnRcodeNever(ignore_errors) == FALSE

\* line 139: `if not ignore_errors` after a failed upload
OutAbortOnRcode(ignore_errors) == ~ignore_errors

\* line 151: fspec.turl = dat.get('pfn')
SetTurl(f, dat) == [f EXCEPT !.turl = dat.pfn]

\* line 155: both digests present and different
AdlerMismatch(f, dat) ==
    /\ Truthy(f.checksum.adler32)
    /\ Truthy(dat.adler32)
    /\ f.checksum.adler32 # dat.adler32

\* variant of MarkMismatch: the status code is not set
MarkMismatchNoCode(f) == [f EXCEPT !.status = "failed"]

\* lines 158-159
MarkMismatch(f) == [f EXCEPT !.status = "failed", !.status_code = PUTADMISMATCH]

\* variant of OutAbortOnMismatch: a checksum mismatch always aborts the batch
OutAbortOnMismatchAlways(ignore_errors) == TRUE

\* line 160: `if not ignore_errors` after a checksum mismatch
OutAbortOnMismatch(ignore_errors) == ~ignore_errors

\* lines 163-165
OutMarkTransferred(f) ==
    IF f.status_code = 0 THEN [f EXCEPT !.status_code = 0, !.status = "transferred"] ELSE f

\* line 149: summary = json.load(f)
LoadSummary(s, obj) == SummaryJson(obj)

\* lines 102-107: entry to copy_out
CopyOut ==
    /\ pc = "idle"
    /\ \E noreg \in BOOLEAN, sm \in BOOLEAN, ign \in BOOLEAN :
         /\ kwargs' = [NoCall EXCEPT !.func = "copy_out", !.no_register = noreg,
                                     !.summary = sm, !.ignore_errors = ign]
         /\ summary' = SummaryOption(sm)
    /\ environ' = SetLoggingFormat(environ)
    /\ entry' = files
    /\ idx' = IF Len(files) = 0 THEN 0 ELSE 1
    /\ pc' = IF Len(files) = 0 THEN "returned" ELSE "copy_out"
    /\ UNCHANGED <<files, exc, executed, probed, disk, asked, rte, calls>>

\* lines 109-140: the upload of a record, up to the handling of the exit code
CopyOutUpload ==
    /\ pc = "copy_out"
    /\ \E rcode \in {0, 1} : \E stderr \in (IF rcode = 0 THEN {NoText} ELSE StderrTexts) :
         LET cmd == UploadCmd(Cur, kwargs.no_register, summary)
             f0 == [Cur EXCEPT !.status_code = 0]
             error == resolve_transfer_error(stderr, FALSE)
         IN /\ executed' = Append(executed, [i |-> idx, cmd |-> cmd, rcode |-> rcode, stderr |-> stderr,
                                             env |-> environ])
            /\ IF rcode # 0
               THEN /\ files' = SetCur(TransferFailed(f0, error))
                    /\ IF OutAbortOnRcode(kwargs.ignore_errors)
                       THEN Raise(PilotException(error.error, error.rcode, error.state))
                       ELSE pc' = "copy_out_verify" /\ UNCHANGED <<idx, exc>>
               ELSE /\ files' = SetCur(f0)
                    /\ pc' = "copy_out_verify"
                    /\ UNCHANGED <<idx, exc>>
    /\ UNCHANGED <<kwargs, summary, environ, probed, disk, asked, entry, rte, calls>>

\* the path of the summary file of a record
SummaryPath(f, kw) == <<Workdir(f, kw), "rucio_upload.json">>

\* lines 142-165 when `if summary:` fails: only the final status of the record.
\* What is at the path of the summary file is kept in the history of the calls
\* made with the summary option; a call made without the option has no use for it.
CopyOutNoSummary ==
    /\ pc = "copy_out_verify"
    /\ ~SummaryTruthy(summary)
    /\ IF kwargs.summary
       THEN \E exists \in BOOLEAN : \E obj \in (IF exists THEN SummaryObjects(Cur) ELSE {EmptyObj}) :
               disk' = Append(disk, [i |-> idx, exists |-> exists, obj |-> obj, matches |-> TRUE])
       ELSE disk' = disk
    /\ files' = SetCur(OutMarkTransferred(Cur))
    /\ NextRecord("copy_out")
    /\ UNCHANGED <<kwargs, summary, exc, environ, executed, probed, asked, entry, rte, calls>>

\* lines 142-165 when `if summary:` holds and there is no summary file at the path
CopyOutSummaryMissing ==
    /\ pc = "copy_out_verify"
    /\ SummaryTruthy(summary)
    /\ probed' = Append(probed, [i |-> idx, path |-> SummaryPath(Cur, kwargs)])
    /\ disk' = Append(disk, [i |-> idx, exists |-> FALSE, obj |-> EmptyObj, matches |-> TRUE])
    /\ files' = SetCur(OutMarkTransferred(Cur))
    /\ NextRecord("copy_out")
    /\ UNCHANGED <<kwargs, summary, exc, environ, executed, asked, entry, rte, calls>>

\* lines 142-165 when `if summary:` holds and there is a summary file at the path
CopyOutSummaryFound ==
    /\ pc = "copy_out_verify"
    /\ SummaryTruthy(summary)
    /\ \E obj \in SummaryObjects(Cur) :
         LET dat == SummaryGet(obj, Cur)
             f1 == SetTurl(Cur, dat)
         IN /\ probed' = Append(probed, [i |-> idx, path |-> SummaryPath(Cur, kwargs)])
            /\ disk' = Append(disk, [i |-> idx, exists |-> TRUE, obj |-> obj, matches |-> TRUE])
            /\ summary' = LoadSummary(summary, obj)
            /\ IF AdlerMismatch(f1, dat)
               THEN IF OutAbortOnMismatch(kwargs.ignore_errors)
                    THEN /\ files' = SetCur(MarkMismatch(f1))
                         /\ Raise(PilotException(<<"Failed to stageout: CRC mismatched">>,
                                                 PUTADMISMATCH, "AD_MISMATCH"))
                    ELSE /\ files' = SetCur(OutMarkTransferred(MarkMismatch(f1)))
                         /\ NextRecord("copy_out")
                         /\ UNCHANGED exc
               ELSE /\ files' = SetCur(OutMarkTransferred(f1))
                    /\ NextRecord("copy_out")
                    /\ UNCHANGED exc
    /\ UNCHANGED <<kwargs, environ, executed, asked, entry, rte, calls>>

-----------------------------------------------------------------------------
(* A stand-alone call of resolve_transfer_error *)

NoResult == [rcode |-> 0, state |-> None, error |-> <<>>]

Resolve ==
    /\ pc = "classify"
    /\ ~rte.done
    /\ rte' = [rte EXCEPT !.done = TRUE, !.ret = resolve_transfer_error(rte.output, rte.is_stagein)]
    /\ UNCHANGED <<files, pc, idx, kwargs, summary, exc, environ, executed, probed, disk, asked, entry, calls>>

-----------------------------------------------------------------------------
(* Specifications *)

\* a batch handed to copy_in or copy_out
Init ==
    /\ files \in FileLists
    /\ pc = "idle"
    /\ idx = 0
    /\ kwargs = NoCall
    /\ summary = SummaryOption(TRUE)
    /\ exc = NoExc
    /\ environ = None
    /\ executed = <<>>
    /\ probed = <<>>
    /\ disk = <<>>
    /\ asked = <<>>
    /\ entry = <<>>
    /\ rte = [output |-> NoText, is_stagein |-> TRUE, done |-> FALSE, ret |-> NoResult]
    /\ calls = <<>>

Next ==
    \/ CopyIn
    \/ CopyInDirect
    \/ CopyInDownload
    \/ CopyInVerify
    \/ CopyOut
    \/ CopyOutUpload
    \/ CopyOutNoSummary
    \/ CopyOutSummaryMissing
    \/ CopyOutSummaryFound

Spec == Init /\ [][Next]_vars

\* a text handed to resolve_transfer_error
InitResolve ==
    /\ files = <<>>
    /\ pc = "classify"
    /\ idx = 0
    /\ kwargs = NoCall
    /\ summary = SummaryOption(TRUE)
    /\ exc = NoExc
    /\ environ = None
    /\ executed = <<>>
    /\ probed = <<>>
    /\ disk = <<>>
    /\ asked = <<>>
    /\ entry = <<>>
    /\ \E output \in Texts, is_stagein \in BOOLEAN :
         rte = [output |-> output, is_stagein |-> is_stagein, done |-> FALSE, ret |-> NoResult]
    /\ calls = <<>>

NextResolve == Resolve

SpecResolve == InitResolve /\ [][NextResolve]_vars


-----------------------------------------------------------------------------
(* Vocabulary of the properties *)

Called == kwargs.func # None

Done == pc \in {"returned", "raised"}

Range(seq) == {seq[k] : k \in 1..Len(seq)}

\* the execute() calls made for record i
Executions(i) == {k \in 1..Len(executed) : executed[k].i = i}

\* record i was satisfied by direct access
DirectRecord(i) ==
    \E a \in Range(asked) : a.i = i /\ a.da /\ kwargs.allow_direct_access

\* the loop is past record i
Finished(i) == i < idx \/ (pc = "returned" /\ i <= idx)

StatusInvariant(f) ==
    /\ f.status_code = 0 <=> f.status \in {"remote_io", "transferred"}
    /\ f.status_code # 0 => f.status = "failed"

\* the summary file of record i held an entry for it whose digest differs from
\* the expected one, both present
SummaryMismatch(d) ==
    /\ d.exists
    /\ Did(files[d.i]) \in DOMAIN d.obj
    /\ d.obj[Did(files[d.i])].adler32 # None
    /\ files[d.i].checksum.adler32 # None
    /\ d.obj[Did(files[d.i])].adler32 # files[d.i].checksum.adler32

-----------------------------------------------------------------------------
(* Properties *)

\* C1: with ignore_errors false, in copy_in and in copy_out, a nonzero exit code
\* of a record's invocation makes the call raise a PilotException at that record,
\* and no invocation is issued for a later record.
C1_FailureAbortsBatch ==
    (Called /\ ~kwargs.ignore_errors) =>
        \A k \in 1..Len(executed) :
            executed[k].rcode # 0 =>
                /\ pc = "raised"
                /\ idx = executed[k].i
                /\ k = Len(executed)
                /\ \A j \in 1..Len(executed) : executed[j].i <= executed[k].i

C1_Witness ==
    /\ kwargs.func = "copy_out"
    /\ ~kwargs.ignore_errors
    /\ pc = "raised"
    /\ idx = 1
    /\ Len(files) = MaxFiles
    /\ executed[Len(executed)].rcode # 0

\* C2: with ignore_errors true, copy_in and copy_out never raise, whatever the
\* exit codes, checksum results and summary contents; the call goes on until it
\* returns; every record not satisfied by direct access got exactly one
\* invocation, and on return every record of the same sequence has a status.
C2_IgnoreErrorsNeverRaises ==
    (Called /\ kwargs.ignore_errors) =>
        /\ pc # "raised"
        /\ pc # "returned" => ENABLED Next
        /\ \A i \in 1..Len(files) :
              Finished(i) =>
                 /\ Cardinality(Executions(i)) = (IF DirectRecord(i) THEN 0 ELSE 1)
                 /\ files[i].status \in {"remote_io", "transferred", "failed"}
        /\ pc = "returned" =>
              /\ idx = Len(files)
              /\ Len(files) = Len(entry)
              /\ \A i \in 1..Len(files) : files[i].lfn = entry[i].lfn

C2_Witness ==
    /\ kwargs.func = "copy_out"
    /\ kwargs.ignore_errors
    /\ pc = "returned"
    /\ Len(files) = MaxFiles
    /\ executed[1].rcode # 0
    /\ \E d \in Range(disk) : SummaryMismatch(d)
    /\ files[Len(files)].status = "transferred"

\* C3 (as claimed): when the call returns or raises, every record whose
\* invocation returned a nonzero exit code has the tag failed and the code that
\* resolve_transfer_error gives for the direction and the stderr of the invocation.
C3_FailedCodeIsClassifierCode ==
    Done =>
        \A e \in Range(executed) :
            e.rcode # 0 =>
                /\ files[e.i].status = "failed"
                /\ files[e.i].status_code =
                      resolve_transfer_error(e.stderr, kwargs.func = "copy_in").rcode

C5_MarkerAlwaysWins ==
    (rte.done /\ \E l \in 1..Len(rte.output) : HasMarker(rte.output[l])) =>
        /\ rte.ret.error = <<"service_unavailable">>
        /\ rte.ret.rcode = RUCIOSERVICEUNAVAILABLE

\* C6 (as claimed): in copy_out with the summary option on, every upload
\* invocation carries --summary and the summary file is looked up for every
\* record whose upload is over, whatever earlier summary files held.
C6_SummaryForEveryRecord ==
    (kwargs.func = "copy_out" /\ kwargs.summary) =>
        /\ \A e \in Range(executed) : "--summary" \in Range(e.cmd)
        /\ \A d \in Range(disk) : \E p \in Range(probed) : p.i = d.i

\* C7: in copy_in, a record for which direct access is supported and permitted
\* gets status (0, remote_io), no invocation and no file lookup, and the loop
\* goes on to the next record.
C7_DirectAccessSkipsTransfer ==
    kwargs.func = "copy_in" =>
        \A a \in Range(asked) :
            (a.da /\ kwargs.allow_direct_access) =>
                /\ files[a.i].status_code = 0
                /\ files[a.i].status = "remote_io"
                /\ Executions(a.i) = {}
                /\ \A p \in Range(probed) : p.i # a.i
                /\ pc # "raised" \/ idx # a.i
                /\ idx > a.i \/ (pc = "returned" /\ a.i = Len(files))

C7_Witness ==
    /\ kwargs.func = "copy_in"
    /\ Len(files) = MaxFiles
    /\ DirectRecord(1)
    /\ Executions(1) = {}
    /\ Executions(2) # {}
    /\ files[1].status = "remote_io"

\* C8 (as claimed): in copy_out with the summary option on, a record whose
\* summary file holds an entry for it with a digest different from the expected
\* one (both present) gets status (PUTADMISMATCH, failed); with ignore_errors
\* false the call raises at that record with code PUTADMISMATCH and state
\* AD_MISMATCH, so that no later record is invoked.
C8_MismatchFails ==
    (kwargs.func = "copy_out" /\ kwargs.summary) =>
        \A d \in Range(disk) :
            SummaryMismatch(d) =>
                /\ files[d.i].status = "failed"
                /\ files[d.i].status_code = PUTADMISMATCH
                /\ ~kwargs.ignore_errors =>
                      /\ pc = "raised"
                      /\ idx = d.i
                      /\ exc.code = PUTADMISMATCH
                      /\ exc.state = "AD_MISMATCH"
                      /\ \A e \in Range(executed) : e.i <= d.i

\* C9 (as claimed): copy_out changes the turl of a record only when the summary
\* file holds an entry for the record; with a summary file that has no such
\* entry, or an entry without pfn, the turl the record carried is unchanged.
C9_TurlKeptWithoutEntry ==
    kwargs.func = "copy_out" =>
        \A d \in Range(disk) :
            /\ files[d.i].turl # entry[d.i].turl => (d.exists /\ Did(files[d.i]) \in DOMAIN d.obj)
            /\ (d.exists /\ SummaryGet(d.obj, files[d.i]).pfn = None) =>
                  files[d.i].turl = entry[d.i].turl

\* C10: in copy_in, a record whose invocation exits with 0 and whose destination
\* file exists with a digest the checksum verification accepts ends with status
\* (0, transferred), and no failure is raised at it.
C10_VerifiedDownloadTransferred ==
    kwargs.func = "copy_in" =>
        \A d \in Range(disk) :
            (d.exists /\ d.matches /\ \E k \in Executions(d.i) : executed[k].rcode = 0) =>
                /\ files[d.i].status_code = 0
                /\ files[d.i].status = "transferred"
                /\ ~(pc = "raised" /\ idx = d.i)

C10_Witness ==
    /\ kwargs.func = "copy_in"
    /\ ~kwargs.ignore_errors
    /\ pc = "returned"
    /\ Len(files) = MaxFiles
    /\ \A i \in 1..Len(files) : \E d \in Range(disk) : d.i = i /\ d.exists /\ d.matches
    /\ \A i \in 1..Len(files) : files[i].status = "transferred"


\* C11: in copy_in with ignore_errors false, when the destination file exists
\* and the checksum verification leaves a nonzero status code, the call raises
\* at that record with that code and the state of the verification, the record
\* is not marked transferred and no later record is attempted; when the
\* verification leaves the code at 0, nothing is raised at that record.
C11_ChecksumFailureAborts ==
    (kwargs.func = "copy_in" /\ ~kwargs.ignore_errors) =>
        \A d \in Range(disk) :
            d.exists =>
                IF verify_catalog_checksum(entry[d.i], d.matches).fspec.status_code # 0
                THEN /\ pc = "raised"
                     /\ idx = d.i
                     /\ exc.code = files[d.i].status_code
                     /\ exc.code # 0
                     /\ exc.state = verify_catalog_checksum(entry[d.i], d.matches).state
                     /\ files[d.i].status # "transferred"
                     /\ \A e \in Range(executed) : e.i <= d.i
                     /\ \A a \in Range(asked) : a.i <= d.i
                ELSE ~(pc = "raised" /\ idx = d.i)

C11_Witness ==
    /\ kwargs.func = "copy_in"
    /\ ~kwargs.ignore_errors
    /\ pc = "raised"
    /\ idx = 1
    /\ Len(files) = MaxFiles
    /\ \E d \in Range(disk) : d.i = 1 /\ d.exists /\ ~d.matches

\* C12: a missing file does not turn a success into a failure: in copy_in when
\* the invocation exits with 0 and the destination file does not exist, and in
\* copy_out with the summary option when the invocation exits with 0 and the
\* summary file does not exist, nothing is raised at the record, its final
\* status is (0, transferred) and, in copy_out, its turl is unchanged.
C12_MissingFileKeepsSuccess ==
    (kwargs.func = "copy_in" \/ (kwargs.func = "copy_out" /\ kwargs.summary)) =>
        \A d \in Range(disk) :
            (~d.exists /\ \E k \in Executions(d.i) : executed[k].rcode = 0) =>
                /\ ~(pc = "raised" /\ idx = d.i)
                /\ files[d.i].status_code = 0
                /\ files[d.i].status = "transferred"
                /\ kwargs.func = "copy_out" => files[d.i].turl = entry[d.i].turl

C12_Witness ==
    /\ kwargs.func = "copy_out"
    /\ kwargs.summary
    /\ pc = "returned"
    /\ Len(files) = MaxFiles
    /\ \E d \in Range(disk) : d.i = 1 /\ ~d.exists
    /\ \E p \in Range(probed) : p.i = 1
    /\ entry[1].turl = "t0"
    /\ executed[1].rcode = 0

\* C13 (as claimed): in copy_out with the summary option, a record whose
\* invocation exits with 0 and whose summary file holds an entry for it with the
\* expected adler32 digest gets the pfn of the entry as turl and the final
\* status (0, transferred).
C13_MatchingSummarySetsTurl ==
    (kwargs.func = "copy_out" /\ kwargs.summary) =>
        \A d \in Range(disk) :
            (/\ d.exists
             /\ Did(files[d.i]) \in DOMAIN d.obj
             /\ d.obj[Did(files[d.i])].adler32 # None
             /\ d.obj[Did(files[d.i])].adler32 = files[d.i].checksum.adler32
             /\ \E k \in Executions(d.i) : executed[k].rcode = 0) =>
                /\ files[d.i].turl = d.obj[Did(files[d.i])].pfn
                /\ files[d.i].status_code = 0
                /\ files[d.i].status = "transferred"


-----------------------------------------------------------------------------
(* Properties of resolve_transfer_error *)

\* the line holds a Details: match
IsDetailsLine(line) == \E p \in 1..Len(line) : line[p] = "Details:"

\* the text after the leftmost "Details:" of the line
AfterDetails(line) ==
    LET p == CHOOSE q \in 1..Len(line) :
                 line[q] = "Details:" /\ \A r \in 1..(q - 1) : line[r] # "Details:"
    IN [k \in 1..(Len(line) - p) |-> line[p + k]]

IsMarkerLine(line) == \E p \in 1..Len(line) : line[p] = "service_unavailable"

DirectionCode(is_stagein) == IF is_stagein THEN STAGEINFAILED ELSE STAGEOUTFAILED

RECURSIVE OffsetOfLine(_, _)
\* the number of tokens and line breaks of the text before line l
OffsetOfLine(output, l) ==
    IF l = 1 THEN 0 ELSE OffsetOfLine(output, l - 1) + Len(output[l - 1]) + 1

\* C14: on a text with at least one Details: line and no line holding the
\* service-unavailable marker, resolve_transfer_error gives as message the text
\* of the last Details: line, the state COPY_ERROR and the code of the direction.
C14_LastDetailsLineIsMessage ==
    (/\ rte.done
     /\ \E l \in 1..Len(rte.output) : IsDetailsLine(rte.output[l])
     /\ \A l \in 1..Len(rte.output) : ~IsMarkerLine(rte.output[l])) =>
        LET last == CHOOSE l \in 1..Len(rte.output) :
                        /\ IsDetailsLine(rte.output[l])
                        /\ \A m \in (l + 1)..Len(rte.output) : ~IsDetailsLine(rte.output[m])
        IN /\ rte.ret.error = AfterDetails(rte.output[last])
           /\ rte.ret.state = "COPY_ERROR"
           /\ rte.ret.rcode = DirectionCode(rte.is_stagein)

C14_Witness ==
    /\ rte.done
    /\ rte.output = << <<"Details:", "x">>, <<"Details:", "Details:">> >>
    /\ rte.ret.error = <<"Details:">>
    /\ rte.ret.rcode = STAGEINFAILED

\* C15: on a text with no Details: line and no marker, resolve_transfer_error
\* gives STAGEINFAILED for stage-in and STAGEOUTFAILED otherwise, the state
\* COPY_ERROR and a message holding the direction and the whole raw text; on
\* every text the state is COPY_ERROR and the code is that of the direction or
\* the service-unavailable code.
C15_DefaultErrorAndClosedCodes ==
    rte.done =>
        /\ rte.ret.state = "COPY_ERROR"
        /\ rte.ret.rcode \in {DirectionCode(rte.is_stagein), RUCIOSERVICEUNAVAILABLE}
        /\ (\A l \in 1..Len(rte.output) :
               ~IsDetailsLine(rte.output[l]) /\ ~IsMarkerLine(rte.output[l])) =>
              /\ rte.ret.rcode = DirectionCode(rte.is_stagein)
              /\ rte.ret.error[2] = (IF rte.is_stagein THEN "True" ELSE "False")
              /\ Len(rte.ret.error) =
                    3 + OffsetOfLine(rte.output, Len(rte.output)) + Len(rte.output[Len(rte.output)])
              /\ \A l \in 1..Len(rte.output) : \A p \in 1..Len(rte.output[l]) :
                    rte.ret.error[3 + OffsetOfLine(rte.output, l) + p] = rte.output[l][p]
              /\ \A l \in 2..Len(rte.output) :
                    rte.ret.error[3 + OffsetOfLine(rte.output, l)] = "\n"

C15_Witness ==
    /\ rte.done
    /\ ~rte.is_stagein
    /\ rte.output = << <<"x">>, <<"x", "x">> >>
    /\ rte.ret.rcode = STAGEOUTFAILED
    /\ Len(rte.ret.error) = 7


-----------------------------------------------------------------------------
(* Properties of a call as a whole *)

\* the status fields and the turl of a record
Outcome(f) == <<f.status_code, f.status, f.turl>>

\* C16: when copy_in or copy_out raises at record k, the status fields and the
\* turl of every record after k are as on entry to the call, and no step of the
\* call changes a record the loop has left: the records before k keep the
\* final status they were given.
C16_AbortLeavesOtherRecords ==
    [][/\ pc' = "raised" =>
             \A i \in 1..Len(files') : i > idx' => Outcome(files'[i]) = Outcome(entry'[i])
       /\ \A i \in 1..Len(files) : Finished(i) => files'[i] = files[i]]_vars

C16_Witness ==
    /\ kwargs.func = "copy_out"
    /\ pc = "raised"
    /\ Len(files) = MaxFiles
    /\ idx = MaxFiles - 1
    /\ files[idx].status = "failed"
    /\ files[idx].turl # entry[idx].turl
    /\ entry[MaxFiles].turl = "t0"

\* C17: when copy_in or copy_out raises, the code of the exception is nonzero
\* and is the status code of the record the loop is at, and every record before
\* it has status code 0 with the tag remote_io or transferred; with
\* ignore_errors false a nonzero status code is only ever on the record where
\* the call has raised.
C17_RaisedCodeIsRecordCode ==
    /\ pc = "raised" =>
          /\ exc.code # 0
          /\ exc.code = files[idx].status_code
          /\ \A i \in 1..(idx - 1) :
                files[i].status_code = 0 /\ files[i].status \in {"remote_io", "transferred"}
    /\ (Called /\ ~kwargs.ignore_errors) =>
          \A i \in 1..Len(files) : files[i].status_code # 0 => (pc = "raised" /\ i = idx)

C17_Witness ==
    /\ kwargs.func = "copy_out"
    /\ pc = "raised"
    /\ idx = MaxFiles
    /\ exc.code = PUTADMISMATCH
    /\ files[1].status = "transferred"

\* the steps the call still has to make at most
Measure ==
    IF pc = "idle" THEN 2 * Len(files) + 2
    ELSE IF Done THEN 0
    ELSE 2 * (Len(files) - idx) + (IF pc \in {"copy_in", "copy_out"} THEN 2 ELSE 1)

\* C18: copy_in and copy_out terminate on every finite batch whose invocations
\* return: until the call has returned or raised a step is possible, and every
\* step brings the end nearer; the invocations are issued in the order of the
\* sequence, at most one for a record.
C18_TerminatesInOrder ==
    /\ [](Done \/ ENABLED Next)
    /\ [][Measure' < Measure]_vars
    /\ [](\A j, k \in 1..Len(executed) : j < k => executed[j].i < executed[k].i)
    /\ [](\A e \in Range(executed) : e.i <= idx)

C18_Witness ==
    /\ pc = "returned"
    /\ Len(files) = MaxFiles
    /\ Len(executed) = MaxFiles
    /\ \E e \in Range(executed) : e.rcode # 0


-----------------------------------------------------------------------------
(* Two calls of copy_in / copy_out that the host runs concurrently in one    *)
(* process. Only what the calls share is kept: the environment variable and *)
(* the order of the invocations; a call is at its entry (idle), in its loop *)
(* at record i of n, or over (done: returned or raised).                    *)

Callers == {"A", "B"}

\* what the variable may hold before the calls: unset, or set by the host
EnvBefore == {None, "%(message)s"}

IdleCall == [pc |-> "idle", func |-> None, n |-> 0, i |-> 0]

\* the loop of call c goes to the next record, or the call returns
ConcAdvance(c) ==
    calls' = [calls EXCEPT ![c].i = IF calls[c].i < calls[c].n THEN calls[c].i + 1 ELSE calls[c].i,
                           ![c].pc = IF calls[c].i < calls[c].n THEN "loop" ELSE "done"]

\* lines 45-49 and 102-107: call c is entered and sets the variable
ConcEnter(c) ==
    /\ calls[c].pc = "idle"
    /\ \E func \in {"copy_in", "copy_out"}, n \in 0..MaxFiles :
         calls' = [calls EXCEPT ![c] = [pc |-> IF n = 0 THEN "done" ELSE "loop",
                                        func |-> func, n |-> n, i |-> IF n = 0 THEN 0 ELSE 1]]
    /\ environ' = SetLoggingFormat(environ)
    /\ UNCHANGED <<files, pc, idx, kwargs, summary, exc, executed, probed, disk, asked, entry, rte>>

\* lines 53-56: call c, a copy_in, takes a record by direct access
ConcDirect(c) ==
    /\ calls[c].pc = "loop"
    /\ calls[c].func = "copy_in"
    /\ ConcAdvance(c)
    /\ UNCHANGED <<files, pc, idx, kwargs, summary, exc, environ, executed, probed, disk, asked,
                   entry, rte>>

\* lines 58-88 and 110-165: call c issues the invocation of its record; the
\* child process gets the environment as it is then; the call goes on or raises
ConcExecute(c) ==
    /\ calls[c].pc = "loop"
    /\ executed' = Append(executed, [call |-> c, i |-> calls[c].i, env |-> environ])
    /\ \/ ConcAdvance(c)
       \/ calls' = [calls EXCEPT ![c].pc = "done"]
    /\ UNCHANGED <<files, pc, idx, kwargs, summary, exc, environ, probed, disk, asked, entry, rte>>

InitConc ==
    /\ files = <<>>
    /\ pc = "concurrent"
    /\ idx = 0
    /\ kwargs = NoCall
    /\ summary = SummaryOption(TRUE)
    /\ exc = NoExc
    /\ environ \in EnvBefore
    /\ executed = <<>>
    /\ probed = <<>>
    /\ disk = <<>>
    /\ asked = <<>>
    /\ entry = <<>>
    /\ rte = [output |-> NoText, is_stagein |-> TRUE, done |-> FALSE, ret |-> NoResult]
    /\ calls = [c \in Callers |-> IdleCall]

NextConc == \E c \in Callers : ConcEnter(c) \/ ConcDirect(c) \/ ConcExecute(c)

SpecConc == InitConc /\ [][NextConc]_vars

\* C19: every call sets the log-format variable to its fixed value before its
\* first invocation and no call changes it back; so however two concurrent
\* calls interleave, the variable holds the fixed value at every invocation.
C19_LogFormatSetAtEveryInvocation ==
    /\ \A e \in Range(executed) : e.env = LOGGING_FORMAT
    /\ (\E c \in Callers : calls[c].pc # "idle") => environ = LOGGING_FORMAT

C19_Witness ==
    /\ Len(executed) = 3
    /\ executed[1].call = "A"
    /\ executed[2].call = "B"
    /\ executed[3].call = "A"
    /\ calls["A"].pc = "done"
    /\ calls["B"].pc = "loop"
    /\ \A e \in Range(executed) : e.env = LOGGING_FORMAT


====
